---- MODULE Spec2Model ----
(***************************************************************************)
(* The flame graph importer of the profiler: isFlameGraphFormat decides    *)
(* from the first line of a text whether it is flamegraph.pl input, and    *)
(* convertFlameGraphProfile turns such a text into a gecko profile         *)
(* (version 24) with one thread: a string table, a frame table, a stack    *)
(* table and a sample table.                                               *)
(*                                                                         *)
(* A text is a sequence of characters, a character a string of length 1.   *)
(* Indices into texts are 0-based as in JavaScript; SubSeq is 1-based.     *)
(***************************************************************************)
EXTENDS Integers, Sequences, FiniteSets, TLC

VARIABLES
    profile,      \* the argument of convertFlameGraphProfile / isFlameGraphFormat
    lines,        \* profile.split('\n')
    lineIdx,      \* position of the for-of loop in lines (1-based)
    pc,           \* "idle": not called, "for": loop head, "while": count loop, "done": returned
    frames,       \* matched[1] of the current line
    count,        \* the while loop's counter
    timeStamp,    \* let timeStamp
    samples,      \* samples.data
    frameTable,   \* frameTable.data
    stackTable,   \* stackTable.data
    stringTable,  \* stringTable
    stackMap,     \* stackMap: key -> stack id
    frameMap,     \* frameMap: raw label -> frame id
    console,      \* the lines handed to console.log, in order
    stackCalls,   \* history: <<prefix, frame, returned id>> of every getOrCreateStack call
    frameCalls,   \* history: <<frameString, returned id>> of every getOrCreateFrame call
    detected,     \* isFlameGraphFormat(profile): whether it returned, and the value
    profile2,     \* the argument of a second isFlameGraphFormat call
    detected2,    \* whether that call returned, and the value
    returned,     \* the calls of convertFlameGraphProfile that returned: argument and value
    heap,         \* the thread objects made by the calls before the running one
    hidingTimeout,  \* MarkerContextMenuImpl._hidingTimeout
    timers,         \* the timeouts that were set and have neither fired nor been cleared
    nextTimeoutID,  \* the id that the next setTimeout returns
    visibility,     \* the arguments of the setContextMenuVisibility calls, in order
    menuEvents,     \* history: the _onHide and _onShow calls, in order
    stale,          \* history: the timeouts set before an _onShow call that has run
    inView,                   \* TrackCustomMarkerCanvas._canvasState.inView
    renderScheduled,          \* TrackCustomMarkerCanvas._canvasState.renderScheduled
    requestedAnimationFrame,  \* TrackCustomMarkerCanvas._requestedAnimationFrame
    pendingFrames,            \* the animation-frame callbacks requested and not yet run
    canvasLog                 \* history: mount, update, observer and drawCanvas calls, in order

convVars == <<lines, lineIdx, pc, frames, count, timeStamp, samples, frameTable,
              stackTable, stringTable, stackMap, frameMap, console, stackCalls,
              frameCalls, returned, heap>>
vars == <<profile, lines, lineIdx, pc, frames, count, timeStamp, samples, frameTable,
          stackTable, stringTable, stackMap, frameMap, console, stackCalls,
          frameCalls, detected, profile2, detected2, returned, heap, hidingTimeout,
          timers, nextTimeoutID, visibility, menuEvents, stale, inView,
          renderScheduled, requestedAnimationFrame, pendingFrames, canvasLog>>

(***************************************************************************)
(* JavaScript string primitives, on sequences of characters.               *)
(***************************************************************************)
Null == -1

Digits == {"0", "1", "2", "3", "4", "5", "6", "7", "8", "9"}

Min(a, b) == IF a < b THEN a ELSE b

Max(a, b) == IF a < b THEN b ELSE a

\* String.prototype.startsWith(c) for a one-character c
StartsWith(s, c) == Len(s) >= 1 /\ s[1] = c

\* String.prototype.indexOf(c) for a one-character c: 0-based, -1 when absent
IndexOf(s, c) ==
    IF \E k \in 1..Len(s) : s[k] = c
    THEN (CHOOSE k \in 1..Len(s) : s[k] = c /\ \A m \in 1..(k - 1) : s[m] # c) - 1
    ELSE -1

\* String.prototype.substring(start, end): arguments below 0 count as 0, above
\* the length as the length, and the two are swapped when start > end
Substring(s, start, end) ==
    LET a == Min(Max(start, 0), Len(s))
        b == Min(Max(end, 0), Len(s))
    IN SubSeq(s, Min(a, b) + 1, Max(a, b))

\* String.prototype.split(c) for a one-character c: at least one piece
RECURSIVE Split(_, _)
Split(s, c) ==
    LET i == IndexOf(s, c)
    IN IF i = -1 THEN <<s>>
       ELSE <<SubSeq(s, 1, i)>> \o Split(SubSeq(s, i + 2, Len(s)), c)

\* String.prototype.endsWith(suffix)
EndsWith(s, suffix) ==
    /\ Len(s) >= Len(suffix)
    /\ SubSeq(s, Len(s) - Len(suffix) + 1, Len(s)) = suffix

\* String.prototype.includes(sub)
Includes(s, sub) ==
    \E k \in 0..(Len(s) - Len(sub)) : SubSeq(s, k + 1, k + Len(sub)) = sub

\* parseInt of a string of decimal digits
RECURSIVE ParseInt(_)
ParseInt(d) ==
    IF d = <<>> THEN 0
    ELSE 10 * ParseInt(SubSeq(d, 1, Len(d) - 1))
         + (CHOOSE v \in 0..9 :
              d[Len(d)] = <<"0", "1", "2", "3", "4", "5", "6", "7", "8", "9">>[v + 1])

\* `${n}` for a non-negative integer n: its decimal digits
RECURSIVE NumberToString(_)
NumberToString(n) ==
    LET last == <<<<"0", "1", "2", "3", "4", "5", "6", "7", "8", "9">>[(n % 10) + 1]>>
    IN IF n < 10 THEN last ELSE NumberToString(n \div 10) \o last

\* The regular expression of the line parser (line 567); the detector (line 414)
\* uses the same expression without the capture groups: a path of segments
\* free of semicolons and separated by semicolons, one space, one or more
\* digits.  The expression is not anchored.  The path part matches every
\* string, so from a start position it can end at every later position; its
\* stars are greedy and backtracking shortens the match one character at a
\* time, which makes the first success the longest path that is followed by a
\* space and a digit.  The digits part then takes all the digits that follow.

\* the ends e (characters consumed) at which the path part started at s can stop
\* so that " [0-9]" follows
PathEnds(line, s) ==
    {e \in s..(Len(line) - 2) : line[e + 1] = " " /\ line[e + 2] \in Digits}

\* the end of the greedy run of digits that starts at character number from
DigitsEnd(line, from) ==
    CHOOSE e \in from..Len(line) :
        /\ \A k \in from..e : line[k] \in Digits
        /\ (e = Len(line) \/ line[e + 1] \notin Digits)

\* String.prototype.match(regexp): the leftmost start that has a match, and
\* from it the first match in backtracking order
RegExpMatch(line) ==
    IF \E s \in 0..Len(line) : PathEnds(line, s) # {}
    THEN LET s == CHOOSE s1 \in 0..Len(line) :
                    /\ PathEnds(line, s1) # {}
                    /\ \A s0 \in 0..(s1 - 1) : PathEnds(line, s0) = {}
             e == CHOOSE e1 \in PathEnds(line, s) : \A e0 \in PathEnds(line, s) : e0 <= e1
             dEnd == DigitsEnd(line, e + 2)
         IN [matched |-> TRUE,
             frames |-> SubSeq(line, s + 1, e),
             duration |-> SubSeq(line, e + 2, dEnd)]
    ELSE [matched |-> FALSE, frames |-> <<>>, duration |-> <<>>]

(***************************************************************************)
(* isFlameGraphFormat                                                      *)
(***************************************************************************)
IsFlameGraphFormatWholeText(text) ==
    IF StartsWith(text, "{")
    THEN FALSE
    ELSE RegExpMatch(text).matched

IsFlameGraphFormatNoJsonGuard(text) ==
    RegExpMatch(Substring(text, 0, IndexOf(text, "\n"))).matched

IsFlameGraphFormat(text) ==
    IF StartsWith(text, "{")
    THEN FALSE
    ELSE LET firstLine == Substring(text, 0, IndexOf(text, "\n"))
         IN RegExpMatch(firstLine).matched

(***************************************************************************)
(* convertFlameGraphProfile: the tables of _createThread and its closures. *)
(* A thread value t is the record of the tables, the two maps and the call *)
(* histories; ret is the value returned by the last closure call.          *)
(***************************************************************************)
OTHER_CATEGORY_INDEX == 0

JAVA_CATEGORY_INDEX == 1

NATIVE_CATEGORY_INDEX == 2

JavaSuffix == <<"_", "[", "j", "]">>

\* the key of stackMap: `${frame}` when prefix is null, `${frame},${prefix}` otherwise
StackKeyWithoutPrefix(frame, prefix) == NumberToString(frame)

StackKey(frame, prefix) ==
    IF prefix = Null
    THEN NumberToString(frame)
    ELSE NumberToString(frame) \o <<",">> \o NumberToString(prefix)

\* getOrCreateStack(frame, prefix)
GetOrCreateStackIdAfterPush(t, frame, prefix) ==
    LET key == StackKey(frame, prefix)
    IN IF key \in DOMAIN t.stackMap
       THEN [t EXCEPT !.ret = t.stackMap[key],
                      !.stackCalls = @ \cup {<<prefix, frame, t.stackMap[key]>>}]
       ELSE LET stack == Len(t.stackTable) + 1
            IN [t EXCEPT !.stackTable = Append(@, [prefix |-> prefix, frame |-> frame]),
                         !.stackMap = (key :> stack) @@ @,
                         !.ret = stack,
                         !.stackCalls = @ \cup {<<prefix, frame, stack>>}]

GetOrCreateStack(t, frame, prefix) ==
    LET key == StackKey(frame, prefix)
    IN IF key \in DOMAIN t.stackMap
       THEN [t EXCEPT !.ret = t.stackMap[key],
                      !.stackCalls = @ \cup {<<prefix, frame, t.stackMap[key]>>}]
       ELSE LET stack == Len(t.stackTable)
            IN [t EXCEPT !.stackTable = Append(@, [prefix |-> prefix, frame |-> frame]),
                         !.stackMap = (key :> stack) @@ @,
                         !.ret = stack,
                         !.stackCalls = @ \cup {<<prefix, frame, stack>>}]

\* frameString.replace(/_\[j\]$/, ''): the expression matches only at the end
\* of the string and the first match is replaced by the empty string
ReplaceJavaSuffixNot(frameString) == frameString

ReplaceJavaSuffix(frameString) ==
    IF \E k \in 0..Len(frameString) :
          SubSeq(frameString, k + 1, Len(frameString)) = JavaSuffix
    THEN LET k == CHOOSE k1 \in 0..Len(frameString) :
                     SubSeq(frameString, k1 + 1, Len(frameString)) = JavaSuffix
         IN SubSeq(frameString, 1, k)
    ELSE frameString

\* the category of a new frame (lines 498-503)
CategoryColonsFirst(frameString) ==
    IF Includes(frameString, <<":", ":">>) THEN OTHER_CATEGORY_INDEX
    ELSE IF EndsWith(frameString, JavaSuffix) THEN JAVA_CATEGORY_INDEX
    ELSE NATIVE_CATEGORY_INDEX

Category(frameString) ==
    IF EndsWith(frameString, JavaSuffix) THEN JAVA_CATEGORY_INDEX
    ELSE IF ~Includes(frameString, <<":", ":">>) THEN NATIVE_CATEGORY_INDEX
    ELSE OTHER_CATEGORY_INDEX

\* the key of frameMap: the raw label
FrameKeyStored(frameString) == ReplaceJavaSuffix(frameString)

FrameKey(frameString) == frameString

\* getOrCreateFrame(frameString)
GetOrCreateFrame(t, frameString) ==
    LET key == FrameKey(frameString)
    IN IF key \in DOMAIN t.frameMap
       THEN [t EXCEPT !.ret = t.frameMap[key],
                      !.frameCalls = @ \cup {<<frameString, t.frameMap[key]>>}]
       ELSE LET frame == Len(t.frameTable)
                location == Len(t.stringTable)
            IN [t EXCEPT !.stringTable = Append(@, ReplaceJavaSuffix(frameString)),
                         !.frameTable = Append(@, [location |-> location,
                                                   relevantForJS |-> FALSE,
                                                   innerWindowID |-> 0,
                                                   implementation |-> Null,
                                                   optimizations |-> Null,
                                                   line |-> Null,
                                                   column |-> Null,
                                                   category |-> Category(frameString),
                                                   subcategory |-> Null]),
                         !.frameMap = (key :> frame) @@ @,
                         !.ret = frame,
                         !.frameCalls = @ \cup {<<frameString, frame>>}]

\* stackArray.reduce((prefix, stackFrame) => ..., null), from element k on
RECURSIVE ReduceStackRight(_, _, _, _)
ReduceStackRight(t, stackArray, k, prefix) ==
    IF k > Len(stackArray) THEN [t EXCEPT !.ret = prefix]
    ELSE LET t1 == GetOrCreateFrame(t, stackArray[Len(stackArray) - k + 1])
             t2 == GetOrCreateStack(t1, t1.ret, prefix)
         IN ReduceStackRight(t2, stackArray, k + 1, t2.ret)

RECURSIVE ReduceStack(_, _, _, _)
ReduceStack(t, stackArray, k, prefix) ==
    IF k > Len(stackArray) THEN [t EXCEPT !.ret = prefix]
    ELSE LET t1 == GetOrCreateFrame(t, stackArray[k])
             t2 == GetOrCreateStack(t1, t1.ret, prefix)
         IN ReduceStack(t2, stackArray, k + 1, t2.ret)

\* addSample(time, stackArray)
AddSampleUnshift(t, time, stackArray) ==
    LET t1 == ReduceStack(t, stackArray, 1, Null)
    IN [t1 EXCEPT !.samples = <<[stack |-> t1.ret, time |-> time,
                                 responsiveness |-> 0]>> \o @]

AddSample(t, time, stackArray) ==
    LET t1 == ReduceStack(t, stackArray, 1, Null)
    IN [t1 EXCEPT !.samples = Append(@, [stack |-> t1.ret, time |-> time,
                                         responsiveness |-> 0])]

\* timeStamp++ leaves timeStamp one larger
PostIncrementNot(n) == n

PostIncrement(n) == n + 1

Thread ==
    [samples |-> samples, frameTable |-> frameTable, stackTable |-> stackTable,
     stringTable |-> stringTable, stackMap |-> stackMap, frameMap |-> frameMap,
     stackCalls |-> stackCalls, frameCalls |-> frameCalls, ret |-> Null]

SetThread(t) ==
    /\ samples' = t.samples
    /\ frameTable' = t.frameTable
    /\ stackTable' = t.stackTable
    /\ stringTable' = t.stringTable
    /\ stackMap' = t.stackMap
    /\ frameMap' = t.frameMap
    /\ stackCalls' = t.stackCalls
    /\ frameCalls' = t.frameCalls

\* the arrays and maps that _createThread makes: all empty
NewThread ==
    [samples |-> <<>>, frameTable |-> <<>>, stackTable |-> <<>>, stringTable |-> <<>>,
     stackMap |-> <<>>, frameMap |-> <<>>, stackCalls |-> {}, frameCalls |-> {},
     ret |-> Null]

\* n turns of the while loop on the matched frames

\* lines 420-424
CATEGORIES_JavaFirst ==
    <<[name |-> "Java", color |-> "yellow", subcategories |-> <<"Other">>],
      [name |-> "Other", color |-> "grey", subcategories |-> <<"Other">>],
      [name |-> "Native", color |-> "blue", subcategories |-> <<"Other">>]>>

CATEGORIES ==
    <<[name |-> "Other", color |-> "grey", subcategories |-> <<"Other">>],
      [name |-> "Java", color |-> "yellow", subcategories |-> <<"Other">>],
      [name |-> "Native", color |-> "blue", subcategories |-> <<"Other">>]>>

\* lines 584-598: the meta object of the returned profile
Meta ==
    [interval |-> 1,
     processType |-> 0,
     product |-> "Firefox",
     stackwalk |-> 1,
     debug |-> 0,
     gcpoison |-> 0,
     asyncstack |-> 1,
     startTime |-> 0,
     shutdownTime |-> Null,
     version |-> 24,
     presymbolicated |-> TRUE,
     categories |-> CATEGORIES,
     markerSchema |-> <<>>]

\* lines 540-554: finish() returns an object that refers to the arrays of the
\* thread object it closes over; thread is the number of that thread object
Finish(thread) ==
    [tid |-> 0,
     pid |-> 0,
     name |-> "MainThread",
     thread |-> thread,
     registerTime |-> 0,
     unregisterTime |-> Null,
     processType |-> "default"]

\* line 558: _createThread makes new arrays and maps; the thread object of the
\* call before stays on the heap as it is
CreateThreadShared(old) == [heap |-> heap, thread |-> old]

CreateThread(old) == [heap |-> Append(heap, old), thread |-> NewThread]

tables == <<samples, frameTable, stackTable, stringTable, stackMap, frameMap,
            stackCalls, frameCalls>>

detVars == <<detected, profile2, detected2>>

callVars == <<returned, heap>>

menuVars == <<hidingTimeout, timers, nextTimeoutID, visibility, menuEvents, stale>>

canvasVars == <<inView, renderScheduled, requestedAnimationFrame, pendingFrames, canvasLog>>

\* line 563: an empty line is passed over
SkipEmptyLine ==
    /\ pc = "for" /\ lineIdx <= Len(lines)
    /\ lines[lineIdx] = <<>>
    /\ lineIdx' = lineIdx + 1
    /\ UNCHANGED <<profile, lines, pc, frames, count, timeStamp, tables, console, detVars, callVars, menuVars, canvasVars>>

\* lines 567-571: a line the expression does not match is logged and passed over
SkipUnexpectedLineSilently ==
    /\ pc = "for" /\ lineIdx <= Len(lines)
    /\ lines[lineIdx] # <<>>
    /\ ~RegExpMatch(lines[lineIdx]).matched
    /\ lineIdx' = lineIdx + 1
    /\ UNCHANGED <<profile, lines, pc, frames, count, timeStamp, tables, console, detVars, callVars, menuVars, canvasVars>>

LogUnexpectedLine ==
    /\ pc = "for" /\ lineIdx <= Len(lines)
    /\ lines[lineIdx] # <<>>
    /\ ~RegExpMatch(lines[lineIdx]).matched
    /\ console' = Append(console, lines[lineIdx])
    /\ lineIdx' = lineIdx + 1
    /\ UNCHANGED <<profile, lines, pc, frames, count, timeStamp, tables, detVars, callVars, menuVars, canvasVars>>

\* lines 567-574: a matched line sets frames and count
ParseLineInterning ==
    /\ pc = "for" /\ lineIdx <= Len(lines)
    /\ lines[lineIdx] # <<>>
    /\ RegExpMatch(lines[lineIdx]).matched
    /\ frames' = RegExpMatch(lines[lineIdx]).frames
    /\ count' = ParseInt(RegExpMatch(lines[lineIdx]).duration)
    /\ SetThread(ReduceStack(Thread, Split(RegExpMatch(lines[lineIdx]).frames, ";"), 1, Null))
    /\ pc' = "while"
    /\ UNCHANGED <<profile, lines, lineIdx, timeStamp, console, detVars, callVars, menuVars, canvasVars>>

ParseLine ==
    /\ pc = "for" /\ lineIdx <= Len(lines)
    /\ lines[lineIdx] # <<>>
    /\ RegExpMatch(lines[lineIdx]).matched
    /\ frames' = RegExpMatch(lines[lineIdx]).frames
    /\ count' = ParseInt(RegExpMatch(lines[lineIdx]).duration)
    /\ pc' = "while"
    /\ UNCHANGED <<profile, lines, lineIdx, timeStamp, tables, console, detVars, callVars, menuVars, canvasVars>>

\* lines 575-580: one turn of the while loop
WhileBody ==
    /\ pc = "while" /\ count > 0
    /\ count' = count - 1
    /\ LET stack == Split(frames, ";")
       IN IF Len(stack) # 0
          THEN /\ SetThread(AddSample(Thread, timeStamp, stack))
               /\ timeStamp' = PostIncrement(timeStamp)
          ELSE UNCHANGED <<timeStamp, tables>>
    /\ UNCHANGED <<profile, lines, lineIdx, pc, frames, console, detVars, callVars, menuVars, canvasVars>>

\* line 575: the test fails (count-- still decrements) and the for loop goes on
WhileExit ==
    /\ pc = "while" /\ ~(count > 0)
    /\ count' = count - 1
    /\ lineIdx' = lineIdx + 1
    /\ pc' = "for"
    /\ UNCHANGED <<profile, lines, frames, timeStamp, tables, console, detVars, callVars, menuVars, canvasVars>>

\* lines 583-603: the loop is over and the profile is returned
Return ==
    /\ pc = "for" /\ lineIdx > Len(lines)
    /\ pc' = "done"
    /\ returned' = Append(returned,
                          [input |-> profile,
                           profile |-> [meta |-> Meta,
                                        libs |-> <<>>,
                                        threads |-> <<Finish(Len(heap) + 1)>>,
                                        processes |-> <<>>,
                                        pausedRanges |-> <<>>]])
    /\ UNCHANGED <<profile, lines, lineIdx, frames, count, timeStamp, tables, console,
                   detVars, heap, menuVars, canvasVars>>

(***************************************************************************)
(* The count loop at the width of a JavaScript number.  parseInt returns a *)
(* double and count-- subtracts on doubles.  A number is written here as   *)
(* <<hi, lo>> for hi * Base + lo with 0 <= lo < Base; the digit strings    *)
(* have at most MaxDigits digits, so every value is below 2^54, where the  *)
(* doubles are all the integers up to 2^53 and the even integers above.    *)
(***************************************************************************)
Base == 100000000

BaseDigits == 8

MaxDigits == 16

\* 2^53 = 9007199254740992
TwoTo53 == <<90071992, 54740992>>

Carry(hi, lo) ==
    IF lo < 0 THEN <<hi - 1, lo + Base>>
    ELSE IF lo >= Base THEN <<hi + 1, lo - Base>>
    ELSE <<hi, lo>>

Less(a, b) == a[1] < b[1] \/ (a[1] = b[1] /\ a[2] < b[2])

\* the double nearest to the integer v, ties to the even significand: above
\* 2^53 an odd integer lies halfway between two doubles and goes to the one
\* that is a multiple of 4 (Base is a multiple of 4)
RoundToDouble(v) ==
    IF ~Less(TwoTo53, v) \/ v[2] % 2 = 0 THEN v
    ELSE IF (v[2] + 1) % 4 = 0 THEN Carry(v[1], v[2] + 1)
    ELSE Carry(v[1], v[2] - 1)

\* line 574: parseInt(duration) as a double
ParseIntDouble(d) ==
    LET n == Len(d)
    IN IF n <= BaseDigits THEN <<0, ParseInt(d)>>
       ELSE RoundToDouble(<<ParseInt(SubSeq(d, 1, n - BaseDigits)),
                            ParseInt(SubSeq(d, n - BaseDigits + 1, n))>>)

\* line 575: the value count-- stores
MinusOne(v) == RoundToDouble(Carry(v[1], v[2] - 1))

\* line 575: count > 0
IsPositive(v) == Less(<<0, 0>>, v)

\* lines 567-574 with count a double
ParseLineDouble ==
    /\ pc = "for" /\ lineIdx <= Len(lines)
    /\ lines[lineIdx] # <<>>
    /\ RegExpMatch(lines[lineIdx]).matched
    /\ frames' = RegExpMatch(lines[lineIdx]).frames
    /\ count' = ParseIntDouble(RegExpMatch(lines[lineIdx]).duration)
    /\ pc' = "while"
    /\ UNCHANGED <<profile, lines, lineIdx, timeStamp, tables, console, detVars, callVars, menuVars, canvasVars>>

\* the longest run of the count loop that is followed
MaxSamples == 30

\* lines 575-580 with count a double
WhileBodyDouble ==
    /\ pc = "while" /\ IsPositive(count)
    /\ Len(samples) < MaxSamples
    /\ count' = MinusOne(count)
    /\ LET stack == Split(frames, ";")
       IN IF Len(stack) # 0
          THEN /\ SetThread(AddSample(Thread, timeStamp, stack))
               /\ timeStamp' = PostIncrement(timeStamp)
          ELSE UNCHANGED <<timeStamp, tables>>
    /\ UNCHANGED <<profile, lines, lineIdx, pc, frames, console, detVars, callVars, menuVars, canvasVars>>

\* line 575 with count a double: the test fails and the for loop goes on
WhileExitDouble ==
    /\ pc = "while" /\ ~IsPositive(count)
    /\ count' = MinusOne(count)
    /\ lineIdx' = lineIdx + 1
    /\ pc' = "for"
    /\ UNCHANGED <<profile, lines, frames, timeStamp, tables, console, detVars, callVars, menuVars, canvasVars>>

\* convertFlameGraphProfile(text) is called after an earlier call has returned
CallAgain(text) ==
    /\ pc = "done"
    /\ profile' = text
    /\ lines' = Split(text, "\n")
    /\ LET created == CreateThread(Thread)
       IN /\ heap' = created.heap
          /\ SetThread(created.thread)
    /\ lineIdx' = 1
    /\ timeStamp' = 0
    /\ frames' = <<>>
    /\ count' = 0
    /\ pc' = "for"
    /\ UNCHANGED <<console, detVars, returned, menuVars, canvasVars>>

\* isFlameGraphFormat(profile) is called and returns
Detect ==
    /\ ~detected.returned
    /\ detected' = [returned |-> TRUE, value |-> IsFlameGraphFormat(profile)]
    /\ UNCHANGED <<profile, convVars, profile2, detected2, menuVars, canvasVars>>

\* isFlameGraphFormat(profile2) is called and returns
Detect2 ==
    /\ ~detected2.returned
    /\ detected2' = [returned |-> TRUE, value |-> IsFlameGraphFormat(profile2)]
    /\ UNCHANGED <<profile, convVars, profile2, detected, menuVars, canvasVars>>

(***************************************************************************)
(* MarkerContextMenuImpl: _onHide, _onShow and the timeouts of _onHide.    *)
(***************************************************************************)
\* line 227: the component is constructed; no timeout was set yet
MenuIdle ==
    /\ hidingTimeout = Null
    /\ timers = {}
    /\ nextTimeoutID = 1
    /\ visibility = <<>>
    /\ menuEvents = <<>>
    /\ stale = {}

\* the _onHide and _onShow calls that are followed
MaxMenuEvents == 4

\* lines 229-234: _onHide sets a timeout and keeps its id
OnHide ==
    /\ Len(menuEvents) < MaxMenuEvents
    /\ timers' = timers \cup {nextTimeoutID}
    /\ hidingTimeout' = nextTimeoutID
    /\ nextTimeoutID' = nextTimeoutID + 1
    /\ menuEvents' = Append(menuEvents, "hide")
    /\ UNCHANGED <<visibility, stale, profile, convVars, detVars, canvasVars>>

\* lines 230-233: the callback of timeout id runs
TimeoutFires(id) ==
    /\ id \in timers
    /\ timers' = timers \ {id}
    /\ hidingTimeout' = Null
    /\ visibility' = Append(visibility, FALSE)
    /\ UNCHANGED <<nextTimeoutID, menuEvents, stale, profile, convVars, detVars, canvasVars>>

\* lines 236-239: _onShow clears the timeout whose id is kept, if any is pending
OnShow ==
    /\ Len(menuEvents) < MaxMenuEvents
    /\ timers' = timers \ {hidingTimeout}
    /\ visibility' = Append(visibility, TRUE)
    /\ menuEvents' = Append(menuEvents, "show")
    /\ stale' = stale \cup timers
    /\ UNCHANGED <<hidingTimeout, nextTimeoutID, profile, convVars, detVars, canvasVars>>

SomeTimeoutFires == \E id \in timers : TimeoutFires(id)

(***************************************************************************)
(* TrackCustomMarkerCanvas: _scheduleDraw, _observerCallback and the       *)
(* animation-frame callback.  The canvas ref is set while the component is *)
(* mounted, so the callback calls drawCanvas.                              *)
(***************************************************************************)
\* lines 176-181: the fields of a new component
CanvasIdle ==
    /\ inView = FALSE
    /\ renderScheduled = FALSE
    /\ requestedAnimationFrame = FALSE
    /\ pendingFrames = 0
    /\ canvasLog = <<>>

Canvas ==
    [inView |-> inView, renderScheduled |-> renderScheduled,
     requestedAnimationFrame |-> requestedAnimationFrame,
     pendingFrames |-> pendingFrames]

SetCanvas(c) ==
    /\ inView' = c.inView
    /\ renderScheduled' = c.renderScheduled
    /\ requestedAnimationFrame' = c.requestedAnimationFrame
    /\ pendingFrames' = c.pendingFrames

\* lines 358-379: _scheduleDraw()
ScheduleDrawAlwaysRequesting(c) ==
    IF ~c.inView
    THEN [c EXCEPT !.renderScheduled = TRUE]
    ELSE [c EXCEPT !.renderScheduled = FALSE,
                   !.requestedAnimationFrame = TRUE,
                   !.pendingFrames = @ + 1]

ScheduleDraw(c) ==
    IF ~c.inView
    THEN [c EXCEPT !.renderScheduled = TRUE]
    ELSE IF ~c.requestedAnimationFrame
    THEN [c EXCEPT !.renderScheduled = FALSE,
                   !.requestedAnimationFrame = TRUE,
                   !.pendingFrames = @ + 1]
    ELSE [c EXCEPT !.renderScheduled = FALSE]

\* the mount, update and observer calls that are followed
MaxCanvasEvents == 5

IsCanvasEvent(e) == e # "draw"

Mounted == \E k \in 1..Len(canvasLog) : canvasLog[k] = "mount"

CanvasEventsLeft == Len(SelectSeq(canvasLog, IsCanvasEvent)) < MaxCanvasEvents

\* lines 395-397: componentDidMount()
ComponentDidMount ==
    /\ ~Mounted
    /\ CanvasEventsLeft
    /\ SetCanvas(ScheduleDraw(Canvas))
    /\ canvasLog' = Append(canvasLog, "mount")
    /\ UNCHANGED <<profile, convVars, detVars, menuVars>>

\* lines 399-401: componentDidUpdate()
ComponentDidUpdate ==
    /\ Mounted
    /\ CanvasEventsLeft
    /\ SetCanvas(ScheduleDraw(Canvas))
    /\ canvasLog' = Append(canvasLog, "update")
    /\ UNCHANGED <<profile, convVars, detVars, menuVars>>

\* lines 385-393: _observerCallback(value, _entry)
ObserverCallback(value) ==
    /\ Mounted
    /\ CanvasEventsLeft
    /\ LET c == [Canvas EXCEPT !.inView = value]
       IN IF ~c.renderScheduled THEN SetCanvas(c) ELSE SetCanvas(ScheduleDraw(c))
    /\ canvasLog' = Append(canvasLog, IF value THEN "inView" ELSE "outOfView")
    /\ UNCHANGED <<profile, convVars, detVars, menuVars>>

SomeObserverCallback == \E value \in BOOLEAN : ObserverCallback(value)

\* lines 371-377: the animation-frame callback runs and calls drawCanvas
AnimationFrameFires ==
    /\ pendingFrames > 0
    /\ pendingFrames' = pendingFrames - 1
    /\ requestedAnimationFrame' = FALSE
    /\ canvasLog' = Append(canvasLog, "draw")
    /\ UNCHANGED <<inView, renderScheduled, profile, convVars, detVars, menuVars>>

(***************************************************************************)
(* The input texts.                                                        *)
(***************************************************************************)
MaxLines == 2

MaxFrames == 2

MaxWeight == 2

MaxTextLen == 5

MaxPairLen == 3

SeqsUpTo(S, lo, hi) == UNION {[1..n -> S] : n \in lo..hi}

RECURSIVE Join(_, _)
Join(pieces, sep) ==
    IF Len(pieces) = 0 THEN <<>>
    ELSE IF Len(pieces) = 1 THEN pieces[1]
    ELSE pieces[1] \o sep \o Join(Tail(pieces), sep)

\* paths over two plain labels with every weight, and lines that are no
\* "path weight" lines
PathLabels == {<<"a">>, <<"b">>}

OddLines ==
    {<<>>,
     <<"a">>,
     <<" ", "1">>,
     <<"a", " ", "1", "x">>,
     <<"a", "\t", "1">>}

PathLines ==
    {Join(path, <<";">>) \o <<" ">> \o NumberToString(w) :
        path \in SeqsUpTo(PathLabels, 1, MaxFrames), w \in 0..MaxWeight}
    \cup OddLines

\* lines of weight 1 of one or two frames over the labels the frame rules tell apart
RuleLabels ==
    {<<>>,
     <<"a">>,
     <<"a", "_", "[", "j", "]">>,
     <<"a", ":", ":", "b">>,
     <<"a", ":", ":", "b", "_", "[", "j", "]">>,
     <<"_", "[", "j", "]">>}

RuleLines ==
    {Join(path, <<";">>) \o <<" ", "1">> : path \in SeqsUpTo(RuleLabels, 1, 2)}

ExampleTexts ==
    {<<"a", ";", "b", ";", "c", " ", "1", "\n", "a", ";", "b", ";", "d", " ", "1">>,
     <<"x", " ", "5">>,
     <<"x", " ", "5", "\n", "y", " ", "1", "z">>,
     <<"m", "a", "i", "n", ";", "f", "o", "o", ";", "b", "a", "r", " ", "1", "2">>,
     <<"f", "o", "o", " ", "2", "\n", "f", "o", "o", "_", "[", "j", "]", " ", "1", "\n">>}

\* the texts given to convertFlameGraphProfile
IsConvInput(text) ==
    \/ \E n \in 1..MaxLines : \E ls \in [1..n -> PathLines] : text = Join(ls, <<"\n">>)
    \/ \E n \in 1..MaxLines : \E ls \in [1..n -> RuleLines] : text = Join(ls, <<"\n">>)
    \/ text \in ExampleTexts

DetectChars == {"a", ";", " ", "1", "{", "\n", "\t"}

\* the texts given to isFlameGraphFormat
IsDetectInput(text) ==
    \/ \E n \in 0..MaxTextLen : text \in [1..n -> DetectChars]
    \/ text \in ExampleTexts
    \/ text \in {<<"{">> \o t : t \in ExampleTexts}

PairChars == {"a", " ", "1", "{", "\n"}

IsPairInput(text) == \E n \in 0..MaxPairLen : text \in [1..n -> PairChars]

(***************************************************************************)
(* The specifications.                                                     *)
(***************************************************************************)
NotDetected == [returned |-> FALSE, value |-> FALSE]

\* convertFlameGraphProfile(profile) after lines 558-561
Init ==
    /\ IsConvInput(profile)
    /\ lines = Split(profile, "\n")
    /\ lineIdx = 1
    /\ pc = "for"
    /\ frames = <<>>
    /\ count = 0
    /\ timeStamp = 0
    /\ samples = <<>>
    /\ frameTable = <<>>
    /\ stackTable = <<>>
    /\ stringTable = <<>>
    /\ stackMap = <<>>
    /\ frameMap = <<>>
    /\ console = <<>>
    /\ stackCalls = {}
    /\ frameCalls = {}
    /\ detected = NotDetected
    /\ profile2 = <<>>
    /\ detected2 = NotDetected
    /\ returned = <<>>
    /\ heap = <<>>
    /\ MenuIdle
    /\ CanvasIdle

Next ==
    \/ SkipEmptyLine
    \/ LogUnexpectedLine
    \/ ParseLine
    \/ WhileBody
    \/ WhileExit
    \/ Return

Spec == Init /\ [][Next]_vars

ConverterIdle ==
    /\ lines = <<>>
    /\ lineIdx = 1
    /\ pc = "idle"
    /\ frames = <<>>
    /\ count = 0
    /\ timeStamp = 0
    /\ samples = <<>>
    /\ frameTable = <<>>
    /\ stackTable = <<>>
    /\ stringTable = <<>>
    /\ stackMap = <<>>
    /\ frameMap = <<>>
    /\ console = <<>>
    /\ stackCalls = {}
    /\ frameCalls = {}
    /\ returned = <<>>
    /\ heap = <<>>
    /\ MenuIdle
    /\ CanvasIdle

\* one call of isFlameGraphFormat on any text
InitDetect ==
    /\ IsDetectInput(profile)
    /\ ConverterIdle
    /\ detected = NotDetected
    /\ profile2 = <<>>
    /\ detected2 = [returned |-> TRUE, value |-> FALSE]

NextDetect == Detect

SpecDetect == InitDetect /\ [][NextDetect]_vars

\* the calls of convertFlameGraphProfile that one run of the program makes
MaxCalls == 2

CallTexts ==
    {<<>>,
     <<"a">>,
     <<"a", " ", "1">>,
     <<"a", " ", "2">>,
     <<"b", " ", "1">>,
     <<"a", ";", "b", " ", "1">>,
     <<"b", ";", "a", " ", "1">>,
     <<"a", "_", "[", "j", "]", " ", "1">>,
     <<"a", " ", "1", "\n", "\n", "a", ";", "b", " ", "1">>}

InitCalls ==
    /\ profile \in CallTexts
    /\ lines = Split(profile, "\n")
    /\ lineIdx = 1
    /\ pc = "for"
    /\ frames = <<>>
    /\ count = 0
    /\ timeStamp = 0
    /\ samples = <<>>
    /\ frameTable = <<>>
    /\ stackTable = <<>>
    /\ stringTable = <<>>
    /\ stackMap = <<>>
    /\ frameMap = <<>>
    /\ stackCalls = {}
    /\ frameCalls = {}
    /\ console = <<>>
    /\ detected = NotDetected
    /\ profile2 = <<>>
    /\ detected2 = NotDetected
    /\ returned = <<>>
    /\ heap = <<>>
    /\ MenuIdle
    /\ CanvasIdle

CallAgainSome ==
    /\ Len(returned) < MaxCalls
    /\ \E text \in CallTexts : CallAgain(text)

NextCalls ==
    \/ SkipEmptyLine
    \/ LogUnexpectedLine
    \/ ParseLine
    \/ WhileBody
    \/ WhileExit
    \/ Return
    \/ CallAgainSome

SpecCalls == InitCalls /\ [][NextCalls]_vars

\* lines with small weights and with weights around 2^53
BigWeights ==
    {<<"0">>,
     <<"1">>,
     <<"3">>,
     <<"9", "0", "0", "7", "1", "9", "9", "2", "5", "4", "7", "4", "0", "9", "9", "2">>,
     <<"9", "0", "0", "7", "1", "9", "9", "2", "5", "4", "7", "4", "0", "9", "9", "3">>,
     <<"9", "0", "0", "7", "1", "9", "9", "2", "5", "4", "7", "4", "0", "9", "9", "4">>,
     <<"9", "0", "0", "7", "1", "9", "9", "2", "5", "4", "7", "4", "0", "9", "9", "5">>,
     <<"9", "0", "0", "7", "1", "9", "9", "2", "5", "4", "7", "4", "0", "9", "9", "6">>,
     <<"9", "9", "9", "9", "9", "9", "9", "9", "9", "9", "9", "9", "9", "9", "9", "9">>}

BigTexts ==
    {<<"a", " ">> \o w : w \in {d \in BigWeights : Len(d) <= MaxDigits}}
    \cup {<<"a", ";", "b", " ", "2", "\n">> \o <<"a", " ">> \o w :
             w \in {d \in BigWeights : Len(d) <= MaxDigits}}
    \cup {<<>>, <<"a">>, <<"a", "\n", "\n", "b", " ", "1">>}

InitBig ==
    /\ profile \in BigTexts
    /\ lines = Split(profile, "\n")
    /\ lineIdx = 1
    /\ pc = "for"
    /\ frames = <<>>
    /\ count = <<0, 0>>
    /\ timeStamp = 0
    /\ samples = <<>>
    /\ frameTable = <<>>
    /\ stackTable = <<>>
    /\ stringTable = <<>>
    /\ stackMap = <<>>
    /\ frameMap = <<>>
    /\ stackCalls = {}
    /\ frameCalls = {}
    /\ console = <<>>
    /\ detected = NotDetected
    /\ profile2 = <<>>
    /\ detected2 = NotDetected
    /\ returned = <<>>
    /\ heap = <<>>
    /\ MenuIdle
    /\ CanvasIdle

NextBig ==
    \/ SkipEmptyLine
    \/ LogUnexpectedLine
    \/ ParseLineDouble
    \/ WhileBodyDouble
    \/ WhileExitDouble
    \/ Return

SpecBig == InitBig /\ [][NextBig]_vars

\* a MarkerContextMenuImpl and the menu events and timeouts it sees
InitMenu ==
    /\ profile = <<>>
    /\ ConverterIdle
    /\ detected = NotDetected
    /\ profile2 = <<>>
    /\ detected2 = NotDetected

NextMenu ==
    \/ OnHide
    \/ OnShow
    \/ SomeTimeoutFires

SpecMenu == InitMenu /\ [][NextMenu]_vars

\* the host gives one text to isFlameGraphFormat and to convertFlameGraphProfile
MaxAgreeLen == 4

AgreeChars == {"a", ";", " ", "0", "1", "{", "\n"}

IsAgreeInput(text) == \E n \in 0..MaxAgreeLen : text \in [1..n -> AgreeChars]

InitAgree ==
    /\ IsAgreeInput(profile)
    /\ lines = Split(profile, "\n")
    /\ lineIdx = 1
    /\ pc = "for"
    /\ frames = <<>>
    /\ count = 0
    /\ timeStamp = 0
    /\ samples = <<>>
    /\ frameTable = <<>>
    /\ stackTable = <<>>
    /\ stringTable = <<>>
    /\ stackMap = <<>>
    /\ frameMap = <<>>
    /\ stackCalls = {}
    /\ frameCalls = {}
    /\ console = <<>>
    /\ detected = NotDetected
    /\ profile2 = <<>>
    /\ detected2 = NotDetected
    /\ returned = <<>>
    /\ heap = <<>>
    /\ MenuIdle
    /\ CanvasIdle

NextAgree ==
    \/ Detect
    \/ SkipEmptyLine
    \/ LogUnexpectedLine
    \/ ParseLine
    \/ WhileBody
    \/ WhileExit
    \/ Return

SpecAgree == InitAgree /\ [][NextAgree]_vars

\* a TrackCustomMarkerCanvas, its draw requests, observer callbacks and frames;
\* the browser runs a requested animation-frame callback in the end
InitCanvas ==
    /\ profile = <<>>
    /\ ConverterIdle
    /\ detected = NotDetected
    /\ profile2 = <<>>
    /\ detected2 = NotDetected

NextCanvas ==
    \/ ComponentDidMount
    \/ ComponentDidUpdate
    \/ SomeObserverCallback
    \/ AnimationFrameFires

SpecCanvas == InitCanvas /\ [][NextCanvas]_vars /\ WF_vars(AnimationFrameFires)

\* two calls of isFlameGraphFormat on two texts, in either order
InitDetectPair ==
    /\ IsPairInput(profile)
    /\ IsPairInput(profile2)
    /\ ConverterIdle
    /\ detected = NotDetected
    /\ detected2 = NotDetected

NextDetectPair ==
    \/ Detect
    \/ Detect2

SpecDetectPair == InitDetectPair /\ [][NextDetectPair]_vars

(***************************************************************************)
(* Properties.  Every closure call made so far is in stackCalls or         *)
(* frameCalls and no table row is ever removed, so a property of the calls *)
(* and rows that holds after every addSample holds between the calls of    *)
(* one addSample as well.                                                  *)
(***************************************************************************)
\* what the line parser reads as the weight of a line; 0 for a line it passes over
LineWeight(line) ==
    IF line # <<>> /\ RegExpMatch(line).matched
    THEN ParseInt(RegExpMatch(line).duration)
    ELSE 0

RECURSIVE TotalWeight(_)
TotalWeight(ls) ==
    IF ls = <<>> THEN 0 ELSE LineWeight(Head(ls)) + TotalWeight(Tail(ls))

\* C1: the samples carry the timestamps 0, 1, 2, ... in emission order without
\* gap or repeat, the counter is the number of samples emitted so far whatever
\* the line, and when the conversion returns there are as many samples as the
\* weights of all lines add up to.
C1_SampleTimestamps ==
    /\ \A k \in 1..Len(samples) : samples[k].time = k - 1
    /\ pc # "idle" => timeStamp = Len(samples)
    /\ pc = "done" => Len(samples) = TotalWeight(Split(profile, "\n"))

\* two lines of positive weight have been converted: the second line's samples
\* continue the count of the first
C1_Witness ==
    /\ pc = "done"
    /\ Len(lines) = 2
    /\ LineWeight(lines[1]) = 2
    /\ LineWeight(lines[2]) = 2
    /\ Len(samples) = 4
    /\ samples[3].time = 2

\* C2: stack interning is a bijection between stack ids and (prefix, frame)
\* pairs: two getOrCreateStack calls return the same id exactly when they pass
\* the same pair, the row at the returned id holds that prefix and frame, every
\* row is the row of some call, and no two rows hold the same pair.
C2_StackInterning ==
    /\ \A c1, c2 \in stackCalls :
          (c1[3] = c2[3]) <=> (c1[1] = c2[1] /\ c1[2] = c2[2])
    /\ \A c \in stackCalls :
          /\ c[3] \in 0..(Len(stackTable) - 1)
          /\ stackTable[c[3] + 1] = [prefix |-> c[1], frame |-> c[2]]
    /\ \A i \in 1..Len(stackTable) : \E c \in stackCalls : c[3] = i - 1
    /\ \A i, j \in 1..Len(stackTable) : stackTable[i] = stackTable[j] => i = j

\* the same frame has been interned as a root and under a prefix, the pair
\* (none, frame) has been passed by two addSample calls
C2_Witness ==
    /\ Len(samples) >= 2
    /\ \E c1, c2 \in stackCalls :
          /\ c1[2] = c2[2]
          /\ c1[1] = Null
          /\ c2[1] # Null
          /\ c1[3] # c2[3]

\* The shape "frame1;frame2;...;frameN <integer>": frames, then whitespace, then
\* a decimal integer that ends the line.  The whitespace is read as the space
\* character, the separator of the format and of both expressions.
Whitespace == {" "}

TrailingDigits(line) ==
    CHOOSE n \in 0..Len(line) :
        /\ \A k \in (Len(line) - n + 1)..Len(line) : line[k] \in Digits
        /\ (n = Len(line) \/ line[Len(line) - n] \notin Digits)

WellFormedLine(line) ==
    LET n == TrailingDigits(line)
    IN n >= 1 /\ n < Len(line) /\ line[Len(line) - n] \in Whitespace

PathOfLine(line) == Split(SubSeq(line, 1, Len(line) - TrailingDigits(line) - 1), ";")

WeightOfLine(line) ==
    ParseInt(SubSeq(line, Len(line) - TrailingDigits(line) + 1, Len(line)))

LeadingPaths(ls) ==
    UNION {{SubSeq(PathOfLine(ls[k]), 1, n) : n \in 1..Len(PathOfLine(ls[k]))} :
           k \in {k1 \in 1..Len(ls) : WellFormedLine(ls[k1]) /\ WeightOfLine(ls[k1]) > 0}}

\* C3: after a conversion the stack table has as many rows as there are distinct
\* non-empty leading frame subsequences (compared by raw label) over the
\* well-formed lines of positive weight.
C3_StackRowsOriginal ==
    pc = "done" => Len(stackTable) = Cardinality(LeadingPaths(Split(profile, "\n")))

\* the label of a call with its last four characters removed
WithoutLastFour(label) == SubSeq(label, 1, Len(label) - 4)

\* the label ends with the characters _ [ j ]
HasJavaMarker(label) ==
    /\ Len(label) >= 4
    /\ label[Len(label) - 3] = "_"
    /\ label[Len(label) - 2] = "["
    /\ label[Len(label) - 1] = "j"
    /\ label[Len(label)] = "]"

HasColons(label) == \E k \in 1..(Len(label) - 1) : label[k] = ":" /\ label[k + 1] = ":"

\* C4: frame interning is keyed by the raw label: two getOrCreateFrame calls
\* return the same frame id exactly when they pass the same raw label, also when
\* the stored labels of two raw labels are equal, and there is one frame row per
\* raw label.
C4_FrameInterning ==
    /\ \A c1, c2 \in frameCalls : (c1[1] = c2[1]) <=> (c1[2] = c2[2])
    /\ \A c \in frameCalls : c[2] \in 0..(Len(frameTable) - 1)
    /\ Len(frameTable) = Cardinality({c[1] : c \in frameCalls})

\* foo has been interned twice by the two samples of the first line, foo_[j]
\* once by the second line
C4_Witness ==
    /\ pc = "done"
    /\ profile = <<"f", "o", "o", " ", "2", "\n",
                   "f", "o", "o", "_", "[", "j", "]", " ", "1", "\n">>
    /\ Len(samples) = 3
    /\ Len(frameTable) = 2
    /\ stringTable[1] = stringTable[2]
    /\ frameCalls = {<<<<"f", "o", "o">>, 0>>, <<<<"f", "o", "o", "_", "[", "j", "]">>, 1>>}

\* C5: the frame row of a raw label has category 1 (Java) and the label without
\* its last four characters as stored label when the label ends with _[j];
\* otherwise category 2 (Native) when it holds no "::"; otherwise category 0
\* (Other); in the last two cases the stored label is the raw label.
C5_FrameCategory ==
    \A c \in frameCalls :
        LET label == c[1]
            row == frameTable[c[2] + 1]
            stored == stringTable[row.location + 1]
        IN IF HasJavaMarker(label)
           THEN row.category = 1 /\ stored = WithoutLastFour(label)
           ELSE IF ~HasColons(label)
           THEN row.category = 2 /\ stored = label
           ELSE row.category = 0 /\ stored = label

\* a::b and a::b_[j] have been interned: Other and Java
C5_Witness ==
    /\ pc = "done"
    /\ \E c1, c2 \in frameCalls :
          /\ c1[1] = <<"a", ":", ":", "b">>
          /\ frameTable[c1[2] + 1].category = 0
          /\ c2[1] = <<"a", ":", ":", "b", "_", "[", "j", "]">>
          /\ frameTable[c2[2] + 1].category = 1
          /\ stringTable[frameTable[c2[2] + 1].location + 1] = <<"a", ":", ":", "b">>

RECURSIVE FirstSeen(_, _)
FirstSeen(labels, seen) ==
    IF labels = <<>> THEN <<>>
    ELSE IF Head(labels) \in seen THEN FirstSeen(Tail(labels), seen)
    ELSE <<Head(labels)>> \o FirstSeen(Tail(labels), seen \cup {Head(labels)})

RECURSIVE LabelsOf(_)
LabelsOf(ls) ==
    IF ls = <<>> THEN <<>>
    ELSE (IF LineWeight(Head(ls)) > 0
          THEN Split(RegExpMatch(Head(ls)).frames, ";")
          ELSE <<>>) \o LabelsOf(Tail(ls))

RECURSIVE StackOfPath(_, _, _)
StackOfPath(path, k, prefix) ==
    IF k > Len(path) THEN prefix
    ELSE IF path[k] \notin DOMAIN frameMap THEN Null
    ELSE IF StackKey(frameMap[path[k]], prefix) \notin DOMAIN stackMap THEN Null
    ELSE StackOfPath(path, k + 1, stackMap[StackKey(frameMap[path[k]], prefix)])

\* for every well-formed line in input order, its weight many copies of the
\* stack of its path
RECURSIVE ExpectedStacks(_)
ExpectedStacks(ls) ==
    IF ls = <<>> THEN <<>>
    ELSE (IF WellFormedLine(Head(ls))
          THEN [k \in 1..WeightOfLine(Head(ls)) |-> StackOfPath(PathOfLine(Head(ls)), 1, Null)]
          ELSE <<>>) \o ExpectedStacks(Tail(ls))

\* C10: every well-formed line with weight w contributes exactly w consecutive
\* samples on the stack of its path, each with responsiveness 0, and there are
\* no other samples: the number of samples is the sum of the weights of the
\* well-formed lines.
C10_WeightExpansionOriginal ==
    pc = "done" =>
        /\ [k \in 1..Len(samples) |-> samples[k].stack] = ExpectedStacks(Split(profile, "\n"))
        /\ \A k \in 1..Len(samples) : samples[k].responsiveness = 0

\* the text before the first line break, the whole text when it has none
FirstLine(text) ==
    IF \E k \in 1..Len(text) : text[k] = "\n"
    THEN SubSeq(text, 1, (CHOOSE k \in 1..Len(text) :
                             text[k] = "\n" /\ \A m \in 1..(k - 1) : text[m] # "\n") - 1)
    ELSE text

\* C7: for a text that does not start with {, isFlameGraphFormat returns true
\* exactly when the first line of the text consists of semicolon-separated
\* segments, whitespace and one or more digits.
C7_DetectorShapeOriginal ==
    (detected.returned /\ ~(Len(profile) >= 1 /\ profile[1] = "{")) =>
        (detected.value <=> WellFormedLine(FirstLine(profile)))

\* C8: for a text that starts with {, isFlameGraphFormat returns false whatever
\* follows.
C8_JsonRejected ==
    (detected.returned /\ Len(profile) >= 1 /\ profile[1] = "{") => ~detected.value

\* the detector has returned false for a text that is { followed by a first
\* line of path, space and digits
C8_Witness ==
    /\ detected.returned
    /\ ~detected.value
    /\ profile = <<"{", "x", " ", "5", "\n", "y", " ", "1", "z">>
    /\ IsFlameGraphFormat(Tail(profile))

\* C9: two texts with the same text before the first line break get the same
\* answer from isFlameGraphFormat.
C9_FirstLineOnlyOriginal ==
    (detected.returned /\ detected2.returned /\ FirstLine(profile) = FirstLine(profile2)) =>
        (detected.value = detected2.value)

(***************************************************************************)
(* The conversion as a function of the lines: the loop of lines 562-581    *)
(* run on fresh tables.                                                    *)
(***************************************************************************)
RECURSIVE AddSamples(_, _, _)
AddSamples(t, matchedFrames, n) ==
    IF n <= 0 THEN t
    ELSE AddSamples(AddSample(t, Len(t.samples), Split(matchedFrames, ";")),
                    matchedFrames, n - 1)

\* the for loop over the lines ls
RECURSIVE ConvertLines(_, _)
ConvertLines(t, ls) ==
    IF ls = <<>> THEN t
    ELSE IF Head(ls) = <<>> \/ ~RegExpMatch(Head(ls)).matched
    THEN ConvertLines(t, Tail(ls))
    ELSE ConvertLines(AddSamples(t, RegExpMatch(Head(ls)).frames,
                                 ParseInt(RegExpMatch(Head(ls)).duration)),
                      Tail(ls))

\* the four tables of a thread value
TablesOf(t) == <<t.samples, t.frameTable, t.stackTable, t.stringTable>>

IsShapedOrEmpty(line) == line = <<>> \/ WellFormedLine(line)

\* C11: a non-empty line that is not of the shape "frames, whitespace, integer
\* that ends the line" is skipped: the returned tables are the tables of the
\* conversion of the input without those lines.
C11_MalformedSkippedOriginal ==
    pc = "done" =>
        <<samples, frameTable, stackTable, stringTable>> =
            TablesOf(ConvertLines(NewThread,
                                  SelectSeq(Split(profile, "\n"), IsShapedOrEmpty)))

\* C12: when no line of the input is well-formed, the returned thread has an
\* empty frame table, stack table, string table and sample table.
C12_EmptyProfileOriginal ==
    (pc = "done" /\ \A k \in 1..Len(lines) : ~WellFormedLine(lines[k])) =>
        (samples = <<>> /\ frameTable = <<>> /\ stackTable = <<>> /\ stringTable = <<>>)

\* C13: the tables are structurally sound: every sample's stack is an index of
\* the stack table, every stack row's frame an index of the frame table, every
\* frame row's location an index of the string table, and every stack row's
\* prefix is none or the index of an earlier stack row, so that the prefix links
\* of a stack end at a root without a cycle.
C13_StructurallySound ==
    /\ \A k \in 1..Len(samples) : samples[k].stack \in 0..(Len(stackTable) - 1)
    /\ \A i \in 1..Len(stackTable) :
          /\ stackTable[i].frame \in 0..(Len(frameTable) - 1)
          /\ stackTable[i].prefix = Null \/ stackTable[i].prefix \in 0..(i - 2)
    /\ \A i \in 1..Len(frameTable) : frameTable[i].location \in 0..(Len(stringTable) - 1)

\* samples on a root stack and on a stack with a prefix have been emitted
C13_Witness ==
    /\ pc = "done"
    /\ Len(samples) >= 2
    /\ \E j, k \in 1..Len(samples) :
          /\ stackTable[samples[j].stack + 1].prefix = Null
          /\ stackTable[samples[k].stack + 1].prefix # Null

IsPrefixOf(a, b) == Len(a) <= Len(b) /\ SubSeq(b, 1, Len(a)) = a

\* C14: the string table, frame table, stack table and sample table are
\* append-only: a step leaves each table as it is or adds rows at its end.
C14_AppendOnly ==
    [][/\ IsPrefixOf(samples, samples')
       /\ IsPrefixOf(frameTable, frameTable')
       /\ IsPrefixOf(stackTable, stackTable')
       /\ IsPrefixOf(stringTable, stringTable')]_vars

\* the second line has added rows to tables that held rows of the first line
C14_Witness ==
    /\ pc = "done"
    /\ profile = <<"a", ";", "b", ";", "c", " ", "1", "\n", "a", ";", "b", ";", "d", " ", "1">>
    /\ Len(samples) = 2
    /\ Len(stackTable) = 4
    /\ Len(frameTable) = 4
    /\ Len(stringTable) = 4

\* the frames on the prefix links from stack s up to the root, leaf first
RECURSIVE ChainFrames(_)
ChainFrames(s) ==
    IF s = Null THEN <<>>
    ELSE <<stackTable[s + 1].frame>> \o ChainFrames(stackTable[s + 1].prefix)

Reverse(q) == [k \in 1..Len(q) |-> q[Len(q) - k + 1]]

\* C15: in the profile that a conversion returns, for every sample of a
\* well-formed line f1;...;fN w the prefix links from the sample's stack to the
\* root visit exactly N rows whose frames are the frames interned for fN, ..., f1.
\* The samples of line k follow the samples of the lines before it.
C15_ChainIsPath ==
    pc = "done" =>
        \A k \in 1..Len(lines) :
            WellFormedLine(lines[k]) =>
                \A path \in {PathOfLine(lines[k])} :
                \A before \in {TotalWeight(SubSeq(lines, 1, k - 1))} :
                    \A j \in 1..WeightOfLine(lines[k]) :
                        /\ before + j <= Len(samples)
                        /\ \A n \in 1..Len(path) : path[n] \in DOMAIN frameMap
                        /\ ChainFrames(samples[before + j].stack) =
                              Reverse([n \in 1..Len(path) |-> frameMap[path[n]]])

\* the line a;b;c of the example has been sampled: three rows, the leaf c first
C15_Witness ==
    /\ pc = "done"
    /\ lines[1] = <<"a", ";", "b", ";", "c", " ", "1">>
    /\ ChainFrames(samples[1].stack) =
          <<frameMap[<<"c">>], frameMap[<<"b">>], frameMap[<<"a">>]>>
    /\ stackTable[samples[1].stack + 1].prefix # Null

\* a non-empty line that the line parser rejects
IsRejected(line) == line # <<>> /\ ~RegExpMatch(line).matched

\* C19: the log holds exactly one entry for each non-empty rejected line among
\* the lines passed so far, in input order, and none for an empty or an accepted
\* line; a logged line does not stop the loop: the conversion ends past the last
\* line with the samples of every accepted line.
C19_OneLogPerRejectedLine ==
    /\ console = SelectSeq(SubSeq(lines, 1, lineIdx - 1), IsRejected)
    /\ pc = "done" =>
          /\ lineIdx = Len(lines) + 1
          /\ Len(samples) = TotalWeight(lines)

\* a rejected first line was logged and the accepted line after it was sampled
C19_Witness ==
    /\ pc = "done"
    /\ Len(lines) = 2
    /\ IsRejected(lines[1])
    /\ console = <<lines[1]>>
    /\ LineWeight(lines[2]) > 0
    /\ Len(samples) = LineWeight(lines[2])

\* the flags of a meta object that say something about symbolication and are set
SymbolicationFlagsSet(meta) ==
    {f \in {"symbolicated", "presymbolicated"} \cap DOMAIN meta : meta[f] = TRUE}

CategoryNames(meta) == [k \in 1..Len(meta.categories) |-> meta.categories[k].name]

\* C18 as stated: every returned profile has meta.version 24, meta.interval 1,
\* the categories Other, Java, Native in that order, an empty meta.markerSchema
\* and no symbolication flag set.
C18_FixedMetaOriginal ==
    \A i \in 1..Len(returned) :
        LET meta == returned[i].profile.meta
        IN /\ meta.version = 24
           /\ meta.interval = 1
           /\ CategoryNames(meta) = <<"Other", "Java", "Native">>
           /\ meta.markerSchema = <<>>
           /\ SymbolicationFlagsSet(meta) = {}

\* C18: every returned profile has the same metadata: meta.version 24,
\* meta.interval 1, the categories Other, Java, Native in that order, an empty
\* meta.markerSchema, and exactly one symbolication flag set: presymbolicated.
C18_FixedMeta ==
    \A i \in 1..Len(returned) :
        LET meta == returned[i].profile.meta
        IN /\ meta = Meta
           /\ meta.version = 24
           /\ meta.interval = 1
           /\ CategoryNames(meta) = <<"Other", "Java", "Native">>
           /\ meta.markerSchema = <<>>
           /\ SymbolicationFlagsSet(meta) = {"presymbolicated"}

\* a conversion that emitted samples has returned its profile
C18_Witness ==
    /\ pc = "done"
    /\ Len(returned) = 1
    /\ returned[1].input = profile
    /\ Len(samples) > 0

\* the four tables of thread object number thread: the arrays of the running or
\* latest call, or those of an earlier call kept on the heap
TablesOfThread(thread) ==
    IF thread = Len(heap) + 1
    THEN <<samples, frameTable, stackTable, stringTable>>
    ELSE TablesOf(heap[thread])

\* the interning maps of thread object number thread
MapsOfThread(thread) ==
    IF thread = Len(heap) + 1
    THEN <<stackMap, frameMap>>
    ELSE <<heap[thread].stackMap, heap[thread].frameMap>>

\* C16: at every moment the profile returned for an input has the metadata and
\* the tables that a conversion of that input alone produces, whatever calls ran
\* before it and whatever a later call has done since; two returned profiles
\* never refer to the same thread object, and the running call works on a thread
\* object of its own, whose tables and maps hold nothing of an earlier input.
C16_IndependentCalls ==
    /\ \A i \in 1..Len(returned) :
          LET alone == ConvertLines(NewThread, Split(returned[i].input, "\n"))
              thread == returned[i].profile.threads[1].thread
          IN /\ returned[i].profile.meta = Meta
             /\ TablesOfThread(thread) = TablesOf(alone)
             /\ MapsOfThread(thread) = <<alone.stackMap, alone.frameMap>>
    /\ \A i, j \in 1..Len(returned) :
          i # j => returned[i].profile.threads[1].thread # returned[j].profile.threads[1].thread
    /\ pc \in {"for", "while"} =>
          \A i \in 1..Len(returned) : returned[i].profile.threads[1].thread # Len(heap) + 1

\* a second conversion has returned after a first one that filled its tables,
\* and a different input went first
C16_Witness ==
    /\ pc = "done"
    /\ Len(returned) = 2
    /\ returned[1].input # returned[2].input
    /\ TablesOfThread(1)[1] # <<>>
    /\ TablesOfThread(2)[1] # <<>>
    /\ TablesOfThread(1) # TablesOfThread(2)

\* C17 as stated, for the count loop: the loop counts the parsed weight down to
\* zero, so every turn of the loop leaves count smaller than it was, for every
\* weight that the digits of a line can denote.
C17_CountLoopCountsDownOriginal ==
    [][(pc = "while" /\ pc' = "while") => Less(count', count)]_vars

\* C20 as stated: once _onShow has run no timeout set by an earlier _onHide is
\* left to fire, so false is dispatched only for an _onHide that no _onShow
\* followed before its timeout fired, and whenever the latest menu event is
\* _onShow the last visibility dispatched is true.
C20_ShowCancelsHideOriginal ==
    /\ timers \cap stale = {}
    /\ (menuEvents # <<>> /\ menuEvents[Len(menuEvents)] = "show") =>
          (visibility # <<>> /\ visibility[Len(visibility)] = TRUE)

\* C22: when isFlameGraphFormat has returned true for the text that is being
\* converted, the converter accepts the first line of the text: the line is not
\* empty, the line parser matches it and it is never logged; and when the
\* conversion has returned and the weight read from the first line is at least
\* 1, the profile has at least one sample, the first one a sample of that line.
C22_DetectorConverterAgree ==
    (detected.returned /\ detected.value) =>
        /\ Len(lines) >= 1
        /\ lines[1] # <<>>
        /\ RegExpMatch(lines[1]).matched
        /\ \A k \in 1..Len(console) : console[k] # lines[1]
        /\ lineIdx > 1 => ~IsRejected(lines[1])
        /\ (pc = "done" /\ LineWeight(lines[1]) >= 1) =>
              /\ Len(samples) >= LineWeight(lines[1])
              /\ Len(ChainFrames(samples[1].stack)) =
                    Len(Split(RegExpMatch(lines[1]).frames, ";"))

\* a detected text has been converted and its first line gave a sample
C22_Witness ==
    /\ detected.returned /\ detected.value
    /\ pc = "done"
    /\ LineWeight(lines[1]) >= 1
    /\ Len(samples) >= 1
    /\ returned # <<>>

\* the stack rows on the prefix links from stack s up to the root
RECURSIVE ChainStacks(_)
ChainStacks(s) ==
    IF s = Null THEN {} ELSE {s} \cup ChainStacks(stackTable[s + 1].prefix)

\* between two addSample calls no row is an orphan
NoOrphanRows ==
    /\ \A i \in 1..Len(stackTable) :
          \E k \in 1..Len(samples) : (i - 1) \in ChainStacks(samples[k].stack)
    /\ \A f \in 1..Len(frameTable) :
          \E i \in 1..Len(stackTable) : stackTable[i].frame = f - 1
    /\ \A f \in 1..Len(frameTable) : frameTable[f].location = f - 1
    /\ Len(frameTable) = Len(stringTable)

\* C23: at every point between two addSample calls every stack row is the stack
\* of some sample or an ancestor of one, every frame row is the frame of some
\* stack row, frame row i has location i, and frameTable and stringTable have the
\* same length; and only a turn of the count loop with a positive count changes
\* a table, so a line that is accepted with weight 0 adds no row to any table.
C23_NoOrphanRows ==
    /\ []NoOrphanRows
    /\ [][(pc = "for" \/ count <= 0) =>
             UNCHANGED <<samples, frameTable, stackTable, stringTable>>]_vars

\* a line of weight 0 was accepted, and the line after it gave rows and a sample
C23_Witness ==
    /\ pc = "done"
    /\ Len(lines) = 2
    /\ RegExpMatch(lines[1]).matched
    /\ LineWeight(lines[1]) = 0
    /\ LineWeight(lines[2]) > 0
    /\ RegExpMatch(lines[1]).frames # RegExpMatch(lines[2]).frames
    /\ Len(samples) = LineWeight(lines[2])
    /\ Len(stackTable) >= 1

\* the position of the last entry of the log that is one of events; 0 for none
LastIn(log, events) ==
    IF \E k \in 1..Len(log) : log[k] \in events
    THEN CHOOSE k \in 1..Len(log) :
             log[k] \in events /\ \A m \in (k + 1)..Len(log) : log[m] \notin events
    ELSE 0

\* a draw was requested and drawCanvas has not been called since
Undrawn == LastIn(canvasLog, {"mount", "update"}) > LastIn(canvasLog, {"draw"})

\* C21: at most one animation-frame callback is pending at any time; a draw
\* requested while the canvas is out of view requests no animation frame and
\* sets renderScheduled; a draw request that no drawCanvas call has followed yet
\* is covered by the pending animation frame or remembered in renderScheduled
\* with the canvas out of view; and once the canvas is in view with such a
\* request outstanding, a drawCanvas call follows.
C21_DrawScheduling ==
    /\ [](pendingFrames <= 1)
    /\ [][(~inView /\ \E e \in {"mount", "update"} : canvasLog' = Append(canvasLog, e)) =>
             (pendingFrames' = pendingFrames /\ renderScheduled')]_vars
    /\ [](Undrawn => (pendingFrames = 1 \/ (renderScheduled /\ ~inView)))
    /\ ((Undrawn /\ inView) ~> ~Undrawn)

\* a draw requested out of view was drawn after the observer reported the canvas
\* in view, and a later request made in view with a frame pending was drawn too
C21_Witness ==
    /\ Len(canvasLog) >= 4
    /\ canvasLog[1] = "mount"
    /\ canvasLog[2] = "inView"
    /\ canvasLog[3] = "update"
    /\ canvasLog[Len(canvasLog)] = "draw"
    /\ ~Undrawn
    /\ pendingFrames = 0
====
